---- MODULE Spec2Model ----
(***************************************************************************)
(* Model of the hive frontend: the tip modal (TipModal + PostCard), the    *)
(* feed pager (useFeedPosts + PostFeed), the swap-log normalizer           *)
(* (useRecentTrades) and the formatting and token lookup utilities.  Each  *)
(* subsystem has its own specification over the shared variable tuple; the *)
(* variables of the other subsystems stay at their initial values.         *)
(***************************************************************************)
EXTENDS Integers, Sequences, FiniteSets, TLC

\* ------------------------------------------------------------------------
\* Bounds of the model
\* ------------------------------------------------------------------------
\* createTip calls issued per modal instance before account changes stop
MaxTipCalls == 2
\* ensureUser requests in flight at the same time
MaxEnsureCalls == 2
\* createPost requests in flight at the same time
MaxPostCalls == 1
\* posts the backend holds at most
MaxPosts == 3
\* page size the feed is mounted with (PostFeed passes 20)
PageSize == 1
\* feed loads in flight at the same time
MaxInflight == 2
\* logs in one response of the swaps endpoint
MaxLogs == 3
\* width of an ABI integer word (256 in the program)
IntBits == 24

\* ------------------------------------------------------------------------
\* Tip flow: state of one PostCard / TipModal instance
\* ------------------------------------------------------------------------
VARIABLES
  isTipModalOpen,   \* PostCard: useState(false)
  address,          \* wagmi useAccount().address (NoAddr = undefined)
  traderWallet,     \* post.trader_wallet_address is present
  writeStatus,      \* useWriteContract mutation: idle | pending | success | error
  hash,             \* useWriteContract().data (NoHash = undefined)
  receiptStatus,    \* useWaitForTransactionReceipt query: idle | loading | success | error
  tipError,         \* TipModal: useState('')
  tipRecorded,      \* TipModal: useState(false)
  tipCalls,         \* every api.createTip call issued so far, with its status
  closedEarly,      \* history: the modal was closed while the transfer was not confirmed
  onSuccessCalls    \* history: invocations of the onSuccess prop PostCard passes

\* ------------------------------------------------------------------------
\* Feed pager: state of one mounted PostFeed / useFeedPosts instance
\* ------------------------------------------------------------------------
VARIABLES
  posts,            \* useFeedPosts: useState<Post[]>([]), as post ids
  total,            \* useState(0)
  offset,           \* useState(0)
  feedLoading,      \* isLoading: useState(false)
  feedError,        \* error: useState(null)
  sort,             \* PostFeed: useState('recent')
  viewerWallet,     \* the hook's viewerWallet argument
  requests,         \* fetchPosts calls in flight, in the order they were issued
  numPosts,         \* backend: number of posts stored
  feedMounted,      \* PostFeed is mounted
  feedIntervals,    \* PostFeed: the setInterval timers not cleared, each as the
                    \* refetch it calls (the sort, offset and viewer of its render)
  beforeLatest,     \* history: posts, offset and total before the latest load was
                    \* triggered, while that load is in flight (NoSnapshot otherwise)
  lastLoad          \* history: the load settled by the last step, if any

feedVars == <<posts, total, offset, feedLoading, feedError, sort, viewerWallet,
              requests, numPosts, feedMounted, feedIntervals, beforeLatest, lastLoad>>

\* ------------------------------------------------------------------------
\* Trade normalizer: state of one mounted useRecentTrades instance
\* ------------------------------------------------------------------------
VARIABLES
  swapsBackend,     \* backend: the body GET /api/swaps answers with
  trades,           \* useState<Trade[]>([])
  tradesLoading,    \* isLoading: useState(false)
  tradesError,      \* error: useState(null)
  swapsInFlight,    \* a fetchRecentSwaps call is awaiting its response
  swapsOutcome      \* history: how the last fetchRecentSwaps call ended

swapVars == <<swapsBackend, trades, tradesLoading, tradesError, swapsInFlight,
              swapsOutcome>>

\* ------------------------------------------------------------------------
\* Formatting and lookup utilities: the last call of a utility and what it
\* returned (the variable of the other utility is NoCall meanwhile)
\* ------------------------------------------------------------------------
VARIABLES
  fmtCall,          \* formatAmount(amount, decimals) and its result
  symCall,          \* getTokenSymbol(address) / getTokenInfo(address) and their results
  tsCall            \* the timestamp field computed for a log at a time, and its result

utilVars == <<fmtCall, symCall, tsCall>>

\* ------------------------------------------------------------------------
\* User identity: state of the UserProvider
\* ------------------------------------------------------------------------
VARIABLES
  user,             \* useState<User | null>(null)
  userLoading,      \* isLoading: useState(false)
  userError,        \* error: useState(null)
  ensureCalls       \* ensureUser requests in flight, as the addresses they carry

userVars == <<user, userLoading, userError, ensureCalls>>

\* ------------------------------------------------------------------------
\* Create-post modal: state of Navigation and its CreatePostModal
\* ------------------------------------------------------------------------
VARIABLES
  isModalOpen,      \* Navigation: useState(false)
  selectedTrade,    \* useState<Trade | null>(null)
  reasoning,        \* useState(''), as the sequence of its characters
  isSubmitting,     \* useState(false)
  submitError,      \* useState<string | null>(null), as a sequence of characters
  username,         \* useState('trader')
  postCalls,        \* createPost requests in flight, as their bodies
  sentPosts,        \* history: every createPost request sent, with the wallet,
                    \* the selected trade and the reasoning of that moment
  lastPostStep      \* history: what the last step of the modal did

postVars == <<isModalOpen, selectedTrade, reasoning, isSubmitting, submitError,
              username, postCalls, sentPosts, lastPostStep>>

\* ------------------------------------------------------------------------
\* Tips received: state of one mounted useUserTips instance (Navigation)
\* ------------------------------------------------------------------------
VARIABLES
  tipsUsername,     \* the hook's username argument (NoUsername = null)
  tipsData,         \* data: useState<UserTipsData | null>(null)
  tipsLoading,      \* isLoading: useState(false)
  tipsError,        \* error: useState(null)
  tipsRequests,     \* fetchUserTips calls in flight, as the usernames they carry
  tipsMounted,      \* the component using the hook is mounted
  tipsIntervals     \* the setInterval timers not cleared, each as the username
                    \* its loadUserTips closes over

tipsVars == <<tipsUsername, tipsData, tipsLoading, tipsError, tipsRequests,
              tipsMounted, tipsIntervals>>

tipVars == <<isTipModalOpen, address, traderWallet, writeStatus, hash,
             receiptStatus, tipError, tipRecorded, tipCalls, closedEarly,
             onSuccessCalls>>

vars == <<tipVars, feedVars, swapVars, utilVars, userVars, postVars, tipsVars>>

NoAddr == "undefined"
Addresses == {"0xA1", "0xA2"}
NoHash == "undefined"
Hashes == {"0xh1", "0xh2"}
PostId == "post-1"

ErrNotConnected == "Please connect your wallet first"
ErrNoTrader == "Trader wallet address not found"
ErrRecordTip == "Failed to record tip"

\* useAccount().isConnected
isConnected == address # NoAddr
\* useWriteContract().isPending
isPending == writeStatus = "pending"
\* useWaitForTransactionReceipt().isLoading
isConfirming == receiptStatus = "loading"
\* useWaitForTransactionReceipt().isSuccess
isSuccess == receiptStatus = "success"

\* mutant of ShouldRecordTip: the effect no longer waits for the confirmation
ShouldRecordTipUnconfirmed(success, recorded, h) == ~recorded /\ h # NoHash

\* the record-tip effect's conditions: isSuccess && !tipRecorded, then hash set
ShouldRecordTip(success, recorded, h) == success /\ ~recorded /\ h # NoHash

\* The record-tip effect, run after the render that follows a state change:
\* it runs when one of its dependencies [isSuccess, tipRecorded, hash, address,
\* post.id] differs from the previous render, and then issues api.createTip.
RecordTipEffect(success, recorded, h, addr) ==
  tipCalls' =
    IF <<success, recorded, h, addr>> # <<isSuccess, tipRecorded, hash, address>>
       /\ ShouldRecordTip(success, recorded, h)
    THEN Append(tipCalls, [post_id |-> PostId, tx_hash |-> h,
                           tipper_address |-> addr, status |-> "pending"])
    ELSE tipCalls

TipInit ==
  /\ isTipModalOpen = FALSE
  /\ address \in Addresses \cup {NoAddr}
  /\ traderWallet \in BOOLEAN
  /\ writeStatus = "idle"
  /\ hash = NoHash
  /\ receiptStatus = "idle"
  /\ tipError = ""
  /\ tipRecorded = FALSE
  /\ tipCalls = <<>>
  /\ closedEarly = FALSE
  /\ onSuccessCalls = 0

\* PostCard.handleTip: the Tip button opens the modal
HandleTip ==
  /\ ~isTipModalOpen
  /\ isTipModalOpen' = TRUE
  /\ UNCHANGED <<address, traderWallet, writeStatus, hash, receiptStatus,
                 tipError, tipRecorded, tipCalls, closedEarly>>
  /\ UNCHANGED <<onSuccessCalls, feedVars, swapVars, utilVars, userVars, postVars, tipsVars>>

\* onClose: a click on the overlay (never disabled), the close button or Cancel
OnClose ==
  /\ isTipModalOpen
  /\ isTipModalOpen' = FALSE
  /\ closedEarly' = (closedEarly \/ ~isSuccess)
  /\ UNCHANGED <<address, traderWallet, writeStatus, hash, receiptStatus,
                 tipError, tipRecorded, tipCalls>>
  /\ UNCHANGED <<onSuccessCalls, feedVars, swapVars, utilVars, userVars, postVars, tipsVars>>

\* handleSendTip, reached through the Send button (rendered while the modal is
\* open and no hash exists, disabled while !isConnected || isPending)
HandleSendTip ==
  /\ isTipModalOpen /\ hash = NoHash /\ isConnected /\ ~isPending
  /\ tipRecorded' = FALSE
  /\ IF ~isConnected \/ address = NoAddr
     THEN tipError' = ErrNotConnected /\ UNCHANGED writeStatus
     ELSE IF ~traderWallet
          THEN tipError' = ErrNoTrader /\ UNCHANGED writeStatus
          ELSE tipError' = "" /\ writeStatus' = "pending"
  /\ RecordTipEffect(isSuccess, FALSE, hash, address)
  /\ UNCHANGED <<isTipModalOpen, address, traderWallet, hash, receiptStatus, closedEarly>>
  /\ UNCHANGED <<onSuccessCalls, feedVars, swapVars, utilVars, userVars, postVars, tipsVars>>

\* the signer returns the transaction hash; the receipt watcher starts
WriteContractSuccess ==
  /\ isPending
  /\ \E h \in Hashes :
       /\ hash' = h
       /\ RecordTipEffect(FALSE, tipRecorded, h, address)
  /\ writeStatus' = "success"
  /\ receiptStatus' = "loading"
  /\ UNCHANGED <<isTipModalOpen, address, traderWallet, tipError, tipRecorded, closedEarly>>
  /\ UNCHANGED <<onSuccessCalls, feedVars, swapVars, utilVars, userVars, postVars, tipsVars>>

\* the signer rejects or the submission fails: only writeError is set, which
\* the modal destructures but never renders; the try/catch around the
\* non-throwing writeContract call does not see it
WriteContractError ==
  /\ isPending
  /\ writeStatus' = "error"
  /\ UNCHANGED <<isTipModalOpen, address, traderWallet, hash, receiptStatus,
                 tipError, tipRecorded, tipCalls, closedEarly>>
  /\ UNCHANGED <<onSuccessCalls, feedVars, swapVars, utilVars, userVars, postVars, tipsVars>>

\* the confirmation watcher reports the receipt of hash
ReceiptSuccess ==
  /\ isConfirming
  /\ receiptStatus' = "success"
  /\ RecordTipEffect(TRUE, tipRecorded, hash, address)
  /\ UNCHANGED <<isTipModalOpen, address, traderWallet, writeStatus, hash,
                 tipError, tipRecorded, closedEarly>>
  /\ UNCHANGED <<onSuccessCalls, feedVars, swapVars, utilVars, userVars, postVars, tipsVars>>

\* the confirmation watcher fails (reverted transaction, RPC error)
ReceiptError ==
  /\ isConfirming
  /\ receiptStatus' = "error"
  /\ UNCHANGED <<isTipModalOpen, address, traderWallet, writeStatus, hash,
                 tipError, tipRecorded, tipCalls, closedEarly>>
  /\ UNCHANGED <<onSuccessCalls, feedVars, swapVars, utilVars, userVars, postVars, tipsVars>>

\* the wallet switches account or disconnects: useAccount re-renders the modal
AccountChange ==
  /\ Len(tipCalls) < MaxTipCalls
  /\ \E a \in (Addresses \cup {NoAddr}) \ {address} :
       /\ address' = a
       /\ RecordTipEffect(isSuccess, tipRecorded, hash, a)
  /\ UNCHANGED <<isTipModalOpen, traderWallet, writeStatus, hash, receiptStatus,
                 tipError, tipRecorded, closedEarly>>
  /\ UNCHANGED <<onSuccessCalls, feedVars, swapVars, utilVars, userVars, postVars, tipsVars>>

\* api.createTip resolves: setTipRecorded(true) is the only statement after the
\* await; the onSuccess prop is destructured by TipModal and never called
CreateTipResolve ==
  \E i \in DOMAIN tipCalls :
    /\ tipCalls[i].status = "pending"
    /\ tipRecorded' = TRUE
    /\ tipCalls' = [tipCalls EXCEPT ![i].status = "ok"]
    /\ UNCHANGED <<isTipModalOpen, address, traderWallet, writeStatus, hash,
                   receiptStatus, tipError, closedEarly>>
    /\ UNCHANGED <<onSuccessCalls, feedVars, swapVars, utilVars, userVars, postVars, tipsVars>>

\* api.createTip throws: setError('Failed to record tip: ...')
CreateTipReject ==
  \E i \in DOMAIN tipCalls :
    /\ tipCalls[i].status = "pending"
    /\ tipError' = ErrRecordTip
    /\ tipCalls' = [tipCalls EXCEPT ![i].status = "failed"]
    /\ UNCHANGED <<isTipModalOpen, address, traderWallet, writeStatus, hash,
                   receiptStatus, tipRecorded, closedEarly>>
    /\ UNCHANGED <<onSuccessCalls, feedVars, swapVars, utilVars, userVars, postVars, tipsVars>>

TipNext ==
  \/ HandleTip
  \/ OnClose
  \/ HandleSendTip
  \/ WriteContractSuccess
  \/ WriteContractError
  \/ ReceiptSuccess
  \/ ReceiptError
  \/ AccountChange
  \/ CreateTipResolve
  \/ CreateTipReject

\* ------------------------------------------------------------------------
\* Tip flow: properties
\* ------------------------------------------------------------------------
\* the state of the flow as the modal's step indicator derives it
TipPhase ==
  IF tipRecorded THEN "Recorded"
  ELSE IF isSuccess THEN "Confirmed"
  ELSE IF hash # NoHash THEN "Submitted"
  ELSE "Idle"

CallsOnlyWhenConfirmed ==
  /\ \A i \in DOMAIN tipCalls :
       /\ tipCalls[i].tx_hash # NoHash
       /\ tipCalls[i].tx_hash = hash
       /\ isSuccess
  /\ tipRecorded =>
       /\ hash # NoHash
       /\ isSuccess
       /\ \E i \in DOMAIN tipCalls : tipCalls[i].status = "ok"

\* C1: createTip is issued, and tipRecorded becomes true, only once a hash has
\* been obtained and the confirmation watcher has reported success for it; a
\* step into Recorded starts in Confirmed, never in Idle or Submitted.
C1_RecordOnlyAfterConfirmed ==
  /\ []CallsOnlyWhenConfirmed
  /\ [][(TipPhase' = "Recorded" /\ TipPhase # "Recorded") => TipPhase = "Confirmed"]_vars

C1_Witness ==
  /\ tipRecorded
  /\ \E i \in DOMAIN tipCalls : tipCalls[i].status = "ok" /\ tipCalls[i].tx_hash = hash

\* C2 (as claimed): once the modal has been closed before the transfer was
\* confirmed, the record-tip endpoint is never called for that flow.
C2_ClosedBeforeConfirmNeverRecords ==
  closedEarly => tipCalls = <<>>

\* C3 (as claimed): for each transaction hash the record-tip endpoint is
\* called at most once with that (postId, txHash).
C3_RecordedExactlyOnce ==
  \A h \in Hashes :
    Cardinality({i \in DOMAIN tipCalls :
                   tipCalls[i].post_id = PostId /\ tipCalls[i].tx_hash = h}) <= 1

\* C10 (as claimed): every failed step of the tip flow leaves a non-empty
\* error message in the modal: a missing trader wallet, a failed or rejected
\* transfer submission, a failed record-tip call.
C10_FailureVisible ==
  /\ writeStatus = "error" => tipError # ""
  /\ (\E i \in DOMAIN tipCalls : tipCalls[i].status = "failed") => tipError # ""

\* the createTip calls a step issues
NewTipCalls == {j \in DOMAIN tipCalls' : j > Len(tipCalls)}

\* C11 (as claimed): once a record-tip call has failed for a transaction, no
\* step issues another record-tip call for that transaction, whatever the
\* step changes (the flow cannot be started again while the hash is set).
C11_NoRetryAfterFailure ==
  [][\A i \in DOMAIN tipCalls :
       tipCalls[i].status = "failed" =>
         \A j \in NewTipCalls : tipCalls'[j].tx_hash # tipCalls[i].tx_hash]_vars

\* C12 (as claimed): once the tip is Recorded, the onSuccess callback of the
\* modal is eventually invoked (the callback PostCard passes closes the modal
\* and calls onTipSuccess, through which a feed refresh would be reached).
C12_RecordedTriggersRefresh ==
  tipRecorded ~> (onSuccessCalls > 0)

\* ------------------------------------------------------------------------
\* Feed pager
\* ------------------------------------------------------------------------
Sorts == {"recent", "pnl"}
Viewers == {NoAddr, "0xA1"}
NoError == "null"
ErrFetchPosts == "Failed to fetch posts"

Min(a, b) == IF a < b THEN a ELSE b

\* backend: the ids of its n posts in the order of a sort key (post n is the
\* newest; the other two keys order the same posts differently)
BackendList(s, n) ==
  IF s = "recent" THEN [i \in 1..n |-> n + 1 - i]
  ELSE IF s = "pnl" THEN [i \in 1..n |-> (i % n) + 1]
  ELSE [i \in 1..n |-> i]

\* backend: GET /api/posts?sort&limit&offset -> posts
Page(s, limit, off, n) ==
  SubSeq(BackendList(s, n), off + 1, Min(off + limit, n))

\* hasMore: posts.length < total
hasMore == Len(posts) < total

\* mutant of FeedAfterResolve: a reset load appends like any other load
FeedAfterResolveAppend(req, page, tot) ==
  [posts |-> posts \o page, offset |-> req.offset + Len(page), total |-> tot]

\* mutant of FeedAfterResolve: a response overtaken by a later request is dropped
FeedAfterResolveGuarded(req, page, tot) ==
  IF req.stale THEN [posts |-> posts, offset |-> offset, total |-> total]
  ELSE IF req.reset
       THEN [posts |-> page, offset |-> Len(page), total |-> tot]
       ELSE [posts |-> posts \o page, offset |-> req.offset + Len(page), total |-> tot]

\* mutant of FeedAfterResolve: an appending load advances the offset of the
\* current render, not the offset its request was issued at
FeedAfterResolveCurrentOffset(req, page, tot) ==
  IF req.reset
  THEN [posts |-> page, offset |-> Len(page), total |-> tot]
  ELSE [posts |-> posts \o page, offset |-> offset + Len(page), total |-> tot]

\* loadPosts after the await: the state the response of req is applied to
FeedAfterResolve(req, page, tot) ==
  IF req.reset
  THEN [posts |-> page, offset |-> Len(page), total |-> tot]
  ELSE [posts |-> posts \o page, offset |-> req.offset + Len(page), total |-> tot]

\* refetch of a render: useCallback on [loadPosts], which is useCallback on
\* [sort, pageSize, offset, viewerWallet]
RefetchOf(s, off, v) == [sort |-> s, offset |-> off, viewer |-> v]

\* mutant of IntervalCleanup: the effect returns no cleanup
IntervalCleanupMissing(old) == feedIntervals

\* the cleanup the interval effect returns: clearInterval(interval)
IntervalCleanup(old) == feedIntervals \ {old}

\* PostFeed's effect on [refetch]: when refetch differs from that of the
\* previous render the previous cleanup runs, then setInterval(refetch, 30000)
IntervalEffect(old, new) ==
  IF old = new THEN feedIntervals ELSE IntervalCleanup(old) \cup {new}

NoLoad == [op |-> "none"]
NoSnapshot == [taken |-> FALSE]

\* loadPosts up to the await: setIsLoading(true), setError(null), fetchPosts
\* issued at offset 0 (reset) or at the offset of the current render
LoadPosts(reset, s) ==
  /\ feedLoading' = TRUE
  /\ feedError' = NoError
  /\ requests' = Append(requests,
       [reset |-> reset, sort |-> s,
        offset |-> IF reset THEN 0 ELSE offset, stale |-> FALSE])
  /\ beforeLatest' = [taken |-> TRUE, solo |-> (requests = <<>>),
                      posts |-> posts, offset |-> offset, total |-> total]
  /\ lastLoad' = NoLoad

\* the hook's state before any effect has run
FeedUnmounted ==
  /\ posts = <<>> /\ total = 0 /\ offset = 0
  /\ feedLoading = FALSE /\ feedError = NoError
  /\ sort = "recent" /\ viewerWallet = NoAddr
  /\ requests = <<>> /\ numPosts = 0
  /\ feedMounted = FALSE /\ feedIntervals = {}
  /\ beforeLatest = NoSnapshot /\ lastLoad = NoLoad

\* the hook after mount: the viewer effect and the sort effect have both run
\* setOffset(0); loadPosts(true), and PostFeed's effect has set its interval
FeedInit ==
  /\ posts = <<>> /\ total = 0 /\ offset = 0
  /\ feedLoading = TRUE /\ feedError = NoError
  /\ sort = "recent" /\ viewerWallet = NoAddr
  /\ numPosts \in 0..MaxPosts
  /\ feedMounted = TRUE
  /\ feedIntervals = {RefetchOf("recent", 0, NoAddr)}
  /\ requests =
       [i \in 1..2 |->
          [reset |-> TRUE, sort |-> "recent", offset |-> 0, stale |-> FALSE]]
  /\ beforeLatest = [taken |-> TRUE, solo |-> FALSE,
                     posts |-> <<>>, offset |-> 0, total |-> 0]
  /\ lastLoad = NoLoad

\* PostFeed: a sort button calls setSort; the sort effect resets and reloads
SetSort ==
  /\ feedMounted
  /\ Len(requests) < MaxInflight
  /\ \E s \in Sorts \ {sort} :
       /\ sort' = s
       /\ offset' = 0
       /\ LoadPosts(TRUE, s)
       /\ feedIntervals' = IntervalEffect(RefetchOf(sort, offset, viewerWallet),
                                          RefetchOf(s, 0, viewerWallet))
  /\ UNCHANGED <<posts, total, viewerWallet, numPosts, feedMounted>>
  /\ UNCHANGED <<tipVars, swapVars, utilVars, userVars, postVars, tipsVars>>

\* the viewerWallet argument changes; the viewer effect resets and reloads
SetViewer ==
  /\ feedMounted
  /\ Len(requests) < MaxInflight
  /\ \E v \in Viewers \ {viewerWallet} :
       /\ viewerWallet' = v
       /\ offset' = 0
       /\ LoadPosts(TRUE, sort)
       /\ feedIntervals' = IntervalEffect(RefetchOf(sort, offset, viewerWallet),
                                          RefetchOf(sort, 0, v))
  /\ UNCHANGED <<posts, total, sort, numPosts, feedMounted>>
  /\ UNCHANGED <<tipVars, swapVars, utilVars, userVars, postVars, tipsVars>>

\* an interval of PostFeed fires and calls the refetch it was set with
Refetch ==
  /\ Len(requests) < MaxInflight
  /\ \E t \in feedIntervals : LoadPosts(TRUE, t.sort)
  /\ UNCHANGED <<posts, total, offset, sort, viewerWallet, numPosts, feedMounted,
                 feedIntervals>>
  /\ UNCHANGED <<tipVars, swapVars, utilVars, userVars, postVars, tipsVars>>

\* loadMore: the Load More button, rendered while posts exist and hasMore,
\* disabled while isLoading
LoadMore ==
  /\ feedMounted
  /\ Len(requests) < MaxInflight
  /\ Len(posts) > 0 /\ hasMore /\ ~feedLoading
  /\ LoadPosts(FALSE, sort)
  /\ UNCHANGED <<posts, total, offset, sort, viewerWallet, numPosts, feedMounted,
                 feedIntervals>>
  /\ UNCHANGED <<tipVars, swapVars, utilVars, userVars, postVars, tipsVars>>

\* the requests left in flight once request i has settled; those issued before
\* it have now been overtaken by a later request
Overtake(i) ==
  [j \in 1..(Len(requests) - 1) |->
     IF j < i THEN [requests[j] EXCEPT !.stale = TRUE] ELSE requests[j + 1]]

\* the snapshot is kept while the latest load is still in flight
SnapshotAfter(i) == IF i = Len(requests) THEN NoSnapshot ELSE beforeLatest

\* fetchPosts resolves for request i: the response is applied, isLoading
\* cleared, and the interval effect follows the new offset; React drops the
\* updates of a component that is no longer mounted
FetchPostsResolve ==
  \E i \in DOMAIN requests :
    LET req == requests[i]
        page == Page(req.sort, PageSize, req.offset, numPosts)
        after == FeedAfterResolve(req, page, numPosts)
    IN /\ requests' = Overtake(i)
       /\ beforeLatest' = SnapshotAfter(i)
       /\ IF feedMounted
          THEN /\ posts' = after.posts
               /\ offset' = after.offset
               /\ total' = after.total
               /\ feedLoading' = FALSE
               /\ feedIntervals' =
                    IntervalEffect(RefetchOf(sort, offset, viewerWallet),
                                   RefetchOf(sort, after.offset, viewerWallet))
               /\ lastLoad' = [op |-> "resolve", req |-> req, page |-> page,
                               total |-> numPosts, prevLen |-> Len(posts)]
          ELSE /\ lastLoad' = NoLoad
               /\ UNCHANGED <<posts, offset, total, feedLoading, feedIntervals>>
       /\ UNCHANGED <<feedError, sort, viewerWallet, numPosts, feedMounted>>
       /\ UNCHANGED <<tipVars, swapVars, utilVars, userVars, postVars, tipsVars>>

\* fetchPosts throws for request i: setError(message), isLoading cleared
FetchPostsReject ==
  \E i \in DOMAIN requests :
    /\ requests' = Overtake(i)
    /\ beforeLatest' = SnapshotAfter(i)
    /\ IF feedMounted
       THEN /\ feedError' = ErrFetchPosts
            /\ feedLoading' = FALSE
            /\ lastLoad' = [op |-> "reject", req |-> requests[i],
                            before |-> beforeLatest,
                            latest |-> (i = Len(requests) /\ beforeLatest.taken)]
       ELSE /\ lastLoad' = NoLoad
            /\ UNCHANGED <<feedError, feedLoading>>
    /\ UNCHANGED <<posts, total, offset, sort, viewerWallet, numPosts, feedMounted,
                   feedIntervals>>
    /\ UNCHANGED <<tipVars, swapVars, utilVars, userVars, postVars, tipsVars>>

\* backend: a post is created
BackendNewPost ==
  /\ numPosts < MaxPosts
  /\ numPosts' = numPosts + 1
  /\ lastLoad' = NoLoad
  /\ UNCHANGED <<posts, total, offset, feedLoading, feedError, sort,
                 viewerWallet, requests, feedMounted, feedIntervals, beforeLatest>>
  /\ UNCHANGED <<tipVars, swapVars, utilVars, userVars, postVars, tipsVars>>

\* PostFeed unmounts: the cleanup of its interval effect runs
FeedUnmount ==
  /\ feedMounted
  /\ feedMounted' = FALSE
  /\ feedIntervals' = IntervalCleanup(RefetchOf(sort, offset, viewerWallet))
  /\ lastLoad' = NoLoad
  /\ UNCHANGED <<posts, total, offset, feedLoading, feedError, sort,
                 viewerWallet, requests, numPosts, beforeLatest>>
  /\ UNCHANGED <<tipVars, swapVars, utilVars, userVars, postVars, tipsVars>>

FeedNext ==
  \/ SetSort
  \/ SetViewer
  \/ Refetch
  \/ LoadMore
  \/ FetchPostsResolve
  \/ FetchPostsReject
  \/ BackendNewPost

\* ------------------------------------------------------------------------
\* Trade normalizer (useRecentTrades)
\* ------------------------------------------------------------------------
Null == [null |-> TRUE]
ErrFetchTrades == "Failed to fetch trades"

BlockNumbers == {1, 11}
LogIndexes == {1, 11}
TxIndexes == {0, 1}

\* an ABI word holding v in two's complement at the modelled width
Word(v) == IF v < 0 THEN 2^IntBits + v ELSE v

\* viem decodeAbiParameters for a signed integer: two's complement to value
ToSigned(w) == IF w >= 2^(IntBits - 1) THEN w - 2^IntBits ELSE w

\* parseSwapEventData: the payload is a sequence of ABI words (int256 amount0,
\* int256 amount1, uint160 sqrtPriceX96, uint128 liquidity, int24 tick); a
\* payload too short for the five words makes decodeAbiParameters throw, which
\* is caught and turned into null
parseSwapEventData(data) ==
  IF Len(data) < 5 THEN Null
  ELSE [amount0 |-> ToSigned(data[1]), amount1 |-> ToSigned(data[2]),
        sqrtPriceX96 |-> data[3], liquidity |-> data[4],
        tick |-> ToSigned(data[5]), fee |-> 0]

RECURSIVE ToDigits(_)
\* bigint.toString(): the decimal digits of a non-negative integer
ToDigits(n) == IF n < 10 THEN <<n>> ELSE Append(ToDigits(n \div 10), n % 10)

DigitChars == <<"0", "1", "2", "3", "4", "5", "6", "7", "8", "9">>
ToChars(ds) == [i \in 1..Len(ds) |-> DigitChars[ds[i] + 1]]

RECURSIVE SignificantLoopFromPoint(_, _, _, _, _)
\* mutant of SignificantLoop: every copied digit counts, also the leading zeros
SignificantLoopFromPoint(f, i, significantDecimals, foundNonZero, result) ==
  IF ~(i <= Len(f) /\ significantDecimals < 4) THEN result
  ELSE SignificantLoopFromPoint(f, i + 1, significantDecimals + 1,
                                foundNonZero \/ f[i] # 0, Append(result, f[i]))

RECURSIVE SignificantLoop(_, _, _, _, _)
\* formatAmount's loop over fractionStr: digits are copied until 4 of them
\* have been copied from the first non-zero digit on
SignificantLoop(f, i, significantDecimals, foundNonZero, result) ==
  IF ~(i <= Len(f) /\ significantDecimals < 4) THEN result
  ELSE LET found == foundNonZero \/ f[i] # 0
       IN SignificantLoop(f, i + 1,
                          IF found THEN significantDecimals + 1 ELSE significantDecimals,
                          found, Append(result, f[i]))

RECURSIVE StripTrailingZeros(_)
\* result.replace(/0+$/, '')
StripTrailingZeros(ds) ==
  IF ds # <<>> /\ ds[Len(ds)] = 0 THEN StripTrailingZeros(SubSeq(ds, 1, Len(ds) - 1))
  ELSE ds

\* mutant of FormatMagnitude: the decimal point is written also when no
\* fractional digit is left
FormatMagnitudeAlwaysPoint(ds, decimals) ==
  LET n == Len(ds)
      whole == IF n > decimals THEN SubSeq(ds, 1, n - decimals) ELSE <<0>>
      fractionStr ==
        IF decimals = 0 THEN <<0>>
        ELSE [i \in 1..decimals |->
                IF i <= decimals - n THEN 0 ELSE ds[n - decimals + i]]
      result == StripTrailingZeros(SignificantLoop(fractionStr, 1, 0, FALSE, <<>>))
  IN IF ds = <<0>> THEN <<"0">>
     ELSE ToChars(whole) \o <<".">> \o ToChars(result)

\* formatAmount after absAmount: whole = abs / 10^decimals, fraction =
\* abs % 10^decimals and fraction.toString().padStart(decimals, '0'), taken on
\* ds, the decimal digits of absAmount
FormatMagnitude(ds, decimals) ==
  LET n == Len(ds)
      whole == IF n > decimals THEN SubSeq(ds, 1, n - decimals) ELSE <<0>>
      fractionStr ==
        IF decimals = 0 THEN <<0>>
        ELSE [i \in 1..decimals |->
                IF i <= decimals - n THEN 0 ELSE ds[n - decimals + i]]
      result == StripTrailingZeros(SignificantLoop(fractionStr, 1, 0, FALSE, <<>>))
  IN IF ds = <<0>> THEN <<"0">>
     ELSE IF result = <<>> THEN ToChars(whole)
     ELSE ToChars(whole) \o <<".">> \o ToChars(result)

\* formatAmount(amount, decimals)
formatAmount(amount, decimals) ==
  LET absAmount == IF amount < 0 THEN -amount ELSE amount
  IN FormatMagnitude(ToDigits(absAmount), decimals)

\* token0Decimals / token1Decimals: symbol === 'USDC' ? 6 : 18
SymbolDecimals(symbol) == IF symbol = "USDC" THEN 6 ELSE 18

\* mutant of TradeId: the two numbers are joined without the separator
TradeIdNoSeparator(log) ==
  ToChars(ToDigits(log.block_number)) \o ToChars(ToDigits(log.log_index))

\* the key of a Trade: `${log.block_number}-${log.log_index}`
TradeId(log) ==
  ToChars(ToDigits(log.block_number)) \o <<"-">> \o ToChars(ToDigits(log.log_index))

\* mutant of BuildTrade: the direction test reads the other side
BuildTradeFlipped(log, tx, eventData) ==
  LET receivingToken0 == eventData.amount1 < 0
      token0Decimals == SymbolDecimals(log.token0_symbol)
      token1Decimals == SymbolDecimals(log.token1_symbol)
  IN [id |-> TradeId(log),
      tokenIn |-> IF receivingToken0 THEN log.token1_symbol ELSE log.token0_symbol,
      tokenOut |-> IF receivingToken0 THEN log.token0_symbol ELSE log.token1_symbol,
      amountIn |-> IF receivingToken0
                   THEN formatAmount(eventData.amount1, token1Decimals)
                   ELSE formatAmount(eventData.amount0, token0Decimals),
      amountOut |-> IF receivingToken0
                    THEN formatAmount(-eventData.amount0, token0Decimals)
                    ELSE formatAmount(-eventData.amount1, token1Decimals),
      txHash |-> tx.hash,
      type |-> IF receivingToken0 THEN "buy" ELSE "sell"]

\* the Trade built from a joined, decoded log (the fields decided by the
\* join, the decoding and the direction)
BuildTrade(log, tx, eventData) ==
  LET receivingToken0 == eventData.amount0 < 0
      token0Decimals == SymbolDecimals(log.token0_symbol)
      token1Decimals == SymbolDecimals(log.token1_symbol)
  IN [id |-> TradeId(log),
      tokenIn |-> IF receivingToken0 THEN log.token1_symbol ELSE log.token0_symbol,
      tokenOut |-> IF receivingToken0 THEN log.token0_symbol ELSE log.token1_symbol,
      amountIn |-> IF receivingToken0
                   THEN formatAmount(eventData.amount1, token1Decimals)
                   ELSE formatAmount(eventData.amount0, token0Decimals),
      amountOut |-> IF receivingToken0
                    THEN formatAmount(-eventData.amount0, token0Decimals)
                    ELSE formatAmount(-eventData.amount1, token1Decimals),
      txHash |-> tx.hash,
      type |-> IF receivingToken0 THEN "buy" ELSE "sell"]

\* mutant of MapLog: the transaction is joined by block number only
MapLogAnyTxOfBlock(log, result) ==
  LET blocks == {b \in result.blocks : b.number = log.block_number}
      txs == {t \in result.transactions : t.block_number = log.block_number}
  IN IF blocks = {} \/ txs = {} \/ log.token0_symbol = "" \/ log.token1_symbol = ""
     THEN Null
     ELSE LET eventData == parseSwapEventData(log.data)
          IN IF eventData = Null THEN Null
             ELSE BuildTrade(log, CHOOSE t \in txs : TRUE, eventData)

\* the callback of result.swaps.map: join, enrichment check, decode, build
MapLog(log, result) ==
  LET blocks == {b \in result.blocks : b.number = log.block_number}
      txs == {t \in result.transactions :
                /\ t.block_number = log.block_number
                /\ t.transaction_index = log.transaction_index}
  IN IF blocks = {} \/ txs = {} \/ log.token0_symbol = "" \/ log.token1_symbol = ""
     THEN Null
     ELSE LET eventData == parseSwapEventData(log.data)
          IN IF eventData = Null THEN Null
             ELSE BuildTrade(log, CHOOSE t \in txs : TRUE, eventData)

RECURSIVE FilterNotNull(_)
\* .filter(trade => trade !== null)
FilterNotNull(s) ==
  IF s = <<>> THEN <<>>
  ELSE IF s[1] = Null THEN FilterNotNull(Tail(s))
  ELSE <<s[1]>> \o FilterNotNull(Tail(s))

\* mutant of Reverse: the filtered array is kept in backend order
KeepOrder(s) == s

\* .reverse()
Reverse(s) == [i \in 1..Len(s) |-> s[Len(s) + 1 - i]]

\* result.swaps.map(...).filter(...).reverse()
TransformTrades(result) ==
  Reverse(FilterNotNull([i \in 1..Len(result.swaps) |-> MapLog(result.swaps[i], result)]))

\* ------------------------------------------------------------------------
\* Token and pool registries (a string is the sequence of its characters)
\* ------------------------------------------------------------------------
\* String.prototype.toLowerCase on one character of an address or a symbol
LowerChar(c) ==
  CASE c = "A" -> "a" [] c = "B" -> "b" [] c = "C" -> "c" [] c = "D" -> "d"
    [] c = "E" -> "e" [] c = "F" -> "f" [] c = "X" -> "x" [] OTHER -> c

\* String.prototype.toLowerCase
toLowerCase(s) == [i \in 1..Len(s) |-> LowerChar(s[i])]

\* s.slice(0, n)
SliceHead(s, n) == SubSeq(s, 1, Min(n, Len(s)))

\* s.slice(-n)
SliceTail(s, n) == SubSeq(s, Len(s) - Min(n, Len(s)) + 1, Len(s))

AddrWETH ==
  <<"0", "x", "7", "b", "7", "9", "9", "9", "5", "e", "5", "f", "7", "9",
    "3", "a", "0", "7", "b", "c", "0", "0", "c", "2", "1", "4", "1", "2",
    "e", "5", "0", "e", "c", "a", "e", "0", "9", "8", "e", "7", "f", "9">>

AddrUSDC ==
  <<"0", "x", "1", "c", "7", "d", "4", "b", "1", "9", "6", "c", "b", "0",
    "c", "7", "b", "0", "1", "d", "7", "4", "3", "f", "b", "c", "6", "1",
    "1", "6", "a", "9", "0", "2", "3", "7", "9", "c", "7", "2", "3", "8">>

AddrDAI ==
  <<"0", "x", "6", "8", "1", "9", "4", "a", "7", "2", "9", "c", "2", "4",
    "5", "0", "a", "d", "2", "6", "0", "7", "2", "b", "3", "d", "3", "3",
    "a", "d", "a", "c", "b", "c", "e", "f", "3", "9", "d", "5", "7", "4">>

AddrUSDT ==
  <<"0", "x", "9", "4", "a", "9", "d", "9", "a", "c", "8", "a", "2", "2",
    "5", "3", "4", "e", "3", "f", "a", "c", "a", "9", "f", "4", "e", "7",
    "f", "2", "e", "2", "c", "f", "8", "5", "d", "5", "e", "4", "c", "8">>

AddrETH ==
  <<"0", "x", "0", "0", "0", "0", "0", "0", "0", "0", "0", "0", "0", "0",
    "0", "0", "0", "0", "0", "0", "0", "0", "0", "0", "0", "0", "0", "0",
    "0", "0", "0", "0", "0", "0", "0", "0", "0", "0", "0", "0", "0", "0">>

\* TOKEN_INFO: lower-case address -> symbol and decimals
TOKEN_INFO ==
  (AddrWETH :> [symbol |-> <<"W", "E", "T", "H">>, decimals |-> 18])
    @@ (AddrUSDC :> [symbol |-> <<"U", "S", "D", "C">>, decimals |-> 6])
    @@ (AddrDAI :> [symbol |-> <<"D", "A", "I">>, decimals |-> 18])
    @@ (AddrUSDT :> [symbol |-> <<"U", "S", "D", "T">>, decimals |-> 6])
    @@ (AddrETH :> [symbol |-> <<"E", "T", "H">>, decimals |-> 18])

\* `${address.slice(0, 6)}...${address.slice(-4)}`
ShortAddress(addr) == SliceHead(addr, 6) \o <<".", ".", ".">> \o SliceTail(addr, 4)
\* mutant of getTokenSymbol: the registry is looked up with the address as given
getTokenSymbolExact(addr) ==
  IF addr \in DOMAIN TOKEN_INFO THEN TOKEN_INFO[addr].symbol
  ELSE ShortAddress(addr)

\* utils/tokens getTokenSymbol: TOKEN_INFO[normalized]?.symbol || short form of
\* the address as given
getTokenSymbol(addr) ==
  LET normalized == toLowerCase(addr)
  IN IF normalized \in DOMAIN TOKEN_INFO THEN TOKEN_INFO[normalized].symbol
     ELSE ShortAddress(addr)

\* useRecentTrades getTokenInfo: TOKEN_INFO[normalized] || {short form, 18}
getTokenInfo(addr) ==
  LET normalized == toLowerCase(addr)
  IN IF normalized \in DOMAIN TOKEN_INFO THEN TOKEN_INFO[normalized]
     ELSE [symbol |-> ShortAddress(addr), decimals |-> 18]

PoolWethUsdcV3 ==
  <<"0", "x", "3", "2", "8", "9", "6", "8", "0", "d", "d", "4", "d", "6",
    "c", "1", "0", "b", "b", "1", "9", "b", "8", "9", "9", "7", "2", "9",
    "c", "d", "a", "5", "e", "e", "f", "5", "8", "a", "e", "f", "f", "1">>

PoolWethUsdc ==
  <<"0", "x", "3", "5", "7", "d", "9", "a", "6", "1", "6", "2", "3", "f",
    "0", "c", "9", "2", "0", "9", "f", "a", "9", "7", "1", "a", "d", "0",
    "a", "6", "f", "7", "f", "b", "c", "4", "3", "3", "0", "e", "d", "1",
    "f", "0", "1", "8", "5", "e", "b", "3", "1", "1", "6", "b", "b", "b",
    "e", "0", "3", "4", "6", "e", "e", "0", "c", "a">>

PoolEthUsdc ==
  <<"0", "x", "f", "5", "7", "2", "a", "f", "d", "5", "7", "7", "4", "4",
    "c", "f", "4", "d", "4", "8", "a", "5", "3", "2", "5", "1", "e", "c",
    "a", "5", "6", "f", "a", "3", "0", "a", "1", "9", "1", "4", "0", "9",
    "1", "f", "5", "0", "9", "5", "a", "f", "9", "7", "4", "9", "4", "e",
    "9", "b", "3", "f", "6", "6", "e", "f", "4", "8">>

\* KNOWN_POOLS: lower-case pool identifier -> the two currencies of the pool
KNOWN_POOLS ==
  (PoolWethUsdcV3 :> [currency0 |-> AddrWETH, currency1 |-> AddrUSDC])
    @@ (PoolWethUsdc :> [currency0 |-> AddrWETH, currency1 |-> AddrUSDC])
    @@ (PoolEthUsdc :> [currency0 |-> AddrETH, currency1 |-> AddrUSDC])

\* parsePoolId: the registry entry of poolId.toLowerCase(), null when unknown
parsePoolId(poolId) ==
  LET poolIdLower == toLowerCase(poolId)
  IN IF poolIdLower \in DOMAIN KNOWN_POOLS THEN KNOWN_POOLS[poolIdLower]
     ELSE Null

\* --- the responses the backend is modelled to give ---
AmountValues == {0, 37, 1500000, -37, -1500000}
\* the amounts a pool emits: one side is paid in (positive), the other is
\* paid out (negative, or zero when the output rounds down to nothing)
PoolAmounts ==
  {p \in AmountValues \X AmountValues :
     \/ p[1] > 0 /\ p[2] <= 0
     \/ p[1] <= 0 /\ p[2] > 0}
Payload(p) == <<Word(p[1]), Word(p[2]), 79, 1000, Word(-5)>>
ShortPayloads == {<<>>, <<Word(-37), Word(1500000)>>}
Payloads == {Payload(p) : p \in PoolAmounts} \cup ShortPayloads

TxHashOf(bn, ti) == <<"0xtx", bn, ti>>
BlockOf(bn) == [number |-> bn]
TxOf(bn, ti) == [block_number |-> bn, transaction_index |-> ti, hash |-> TxHashOf(bn, ti)]
JoinTables ==
  [blocks : {{BlockOf(1)}, {BlockOf(1), BlockOf(11)}},
   transactions : {{TxOf(1, 0)}, {TxOf(1, 0), TxOf(11, 1)}}]

\* pool identifiers a log can carry in topics[1]: a registry key, the same
\* key in upper-case hex digits, and an identifier the registry does not hold
PoolWethUsdcUpper ==
  <<"0", "x", "3", "5", "7", "D", "9", "A", "6", "1", "6", "2", "3", "F",
    "0", "C", "9", "2", "0", "9", "F", "A", "9", "7", "1", "A", "D", "0",
    "A", "6", "F", "7", "F", "B", "C", "4", "3", "3", "0", "E", "D", "1",
    "F", "0", "1", "8", "5", "E", "B", "3", "1", "1", "6", "B", "B", "B",
    "E", "0", "3", "4", "6", "E", "E", "0", "C", "A">>

PoolUnknown ==
  <<"0", "x", "3", "5", "7", "d", "9", "a", "6", "1", "6", "2", "3", "f",
    "0", "c", "9", "2", "0", "9", "f", "a", "9", "7", "1", "a", "d", "0",
    "a", "6", "f", "7", "f", "b", "c", "4", "3", "3", "0", "e", "d", "1",
    "f", "0", "1", "8", "5", "e", "b", "3", "1", "1", "6", "b", "b", "b",
    "e", "0", "3", "4", "6", "e", "e", "0", "c", "b">>

PoolIds == {PoolWethUsdc, PoolWethUsdcUpper, PoolUnknown}

\* one log drawn in full variety
RichLogs ==
  {l \in [block_number : BlockNumbers, transaction_index : TxIndexes,
          log_index : {1}, data : Payloads, topic1 : PoolIds,
          token0_symbol : {"", "WETH", "USDC"},
          token1_symbol : {"", "USDC", "DAI", "USDT"}] :
     l.token0_symbol = "" \/ l.token0_symbol # l.token1_symbol}
\* a log of a longer response
ListLogs ==
  [block_number : BlockNumbers, transaction_index : TxIndexes,
   log_index : LogIndexes,
   data : {Payload(<<-1500000, 37>>), <<>>}, topic1 : {PoolWethUsdc},
   token0_symbol : {"WETH"}, token1_symbol : {"USDC"}]
\* the logs of a response are different logs of the chain: no two of them
\* have the same block number and log index
DistinctLogs(ls) ==
  \A i, j \in DOMAIN ls :
    (ls[i].block_number = ls[j].block_number /\ ls[i].log_index = ls[j].log_index)
      => i = j
SwapLists ==
  {<<l>> : l \in RichLogs}
    \cup UNION {{ls \in [1..n -> ListLogs] : DistinctLogs(ls)} : n \in 0..MaxLogs}

SwapsUnmounted ==
  /\ swapsBackend = [swaps |-> <<>>, blocks |-> {}, transactions |-> {}]
  /\ trades = <<>> /\ tradesLoading = FALSE /\ tradesError = NoError
  /\ swapsInFlight = FALSE /\ swapsOutcome = "none"

\* the hook after mount with a connected wallet: the effect has called
\* fetchRecentSwaps, which awaits the response of GET /api/swaps
SwapsInit ==
  /\ \E ls \in SwapLists, jt \in JoinTables :
       swapsBackend = [swaps |-> ls, blocks |-> jt.blocks,
                       transactions |-> jt.transactions]
  /\ trades = <<>> /\ tradesLoading = TRUE /\ tradesError = NoError
  /\ swapsInFlight = TRUE /\ swapsOutcome = "none"

\* refetch: fetchRecentSwaps with a connected wallet, up to the await
FetchRecentSwaps ==
  /\ ~swapsInFlight
  /\ address # NoAddr
  /\ tradesLoading' = TRUE
  /\ tradesError' = NoError
  /\ swapsInFlight' = TRUE
  /\ UNCHANGED <<swapsBackend, trades, swapsOutcome>>
  /\ UNCHANGED <<tipVars, feedVars, utilVars, userVars, postVars, tipsVars>>

\* the response arrives with success = true: the logs are transformed
SwapsResolve ==
  /\ swapsInFlight
  /\ trades' = TransformTrades(swapsBackend)
  /\ tradesError' = NoError
  /\ tradesLoading' = FALSE
  /\ swapsInFlight' = FALSE
  /\ swapsOutcome' = "resolved"
  /\ UNCHANGED swapsBackend
  /\ UNCHANGED <<tipVars, feedVars, utilVars, userVars, postVars, tipsVars>>

\* the request fails, or the response says success = false
SwapsReject ==
  /\ swapsInFlight
  /\ trades' = <<>>
  /\ tradesError' = ErrFetchTrades
  /\ tradesLoading' = FALSE
  /\ swapsInFlight' = FALSE
  /\ swapsOutcome' = "rejected"
  /\ UNCHANGED swapsBackend
  /\ UNCHANGED <<tipVars, feedVars, utilVars, userVars, postVars, tipsVars>>

SwapsNext ==
  \/ FetchRecentSwaps
  \/ SwapsResolve
  \/ SwapsReject

\* ------------------------------------------------------------------------
\* Formatting and lookup utilities called on their own
\* ------------------------------------------------------------------------
NoCall == [called |-> FALSE]

UtilsUnused == fmtCall = NoCall /\ symCall = NoCall /\ tsCall = NoCall

\* amounts within the integer width of the model, of both signs
FormatMagnitudes ==
  {0, 1, 5, 10, 37, 100, 1234, 12345, 100001, 999999, 1000000, 1000001,
   1230000, 1500000, 123456789, 1000000001, 2147483647}
FormatAmounts == FormatMagnitudes \cup {-a : a \in FormatMagnitudes}
\* decimals: the program passes 6 (USDC) and 18; 0 and 2 are the short cases
FormatDecimals == {0, 2, 6, 18}

\* addresses no registry holds
AddrUnknown ==
  <<"0", "x", "d", "e", "a", "d", "b", "e", "e", "f", "0", "0", "0", "0",
    "0", "0", "0", "0", "0", "0", "0", "0", "0", "0", "0", "0", "0", "0",
    "0", "0", "0", "0", "0", "0", "0", "0", "0", "0", "0", "0", "0", "1">>
AddrOther ==
  <<"0", "x", "a", "b", "c", "d", "e", "f", "0", "1", "2", "3", "4", "5",
    "6", "7", "8", "9", "a", "b", "c", "d", "e", "f", "0", "1", "2", "3",
    "4", "5", "6", "7", "8", "9", "a", "b", "c", "d", "b", "e", "e", "f">>

\* the spelling of an address with the hex digits at positions P in upper case
UpperChar(c) ==
  CASE c = "a" -> "A" [] c = "b" -> "B" [] c = "c" -> "C" [] c = "d" -> "D"
    [] c = "e" -> "E" [] c = "f" -> "F" [] OTHER -> c
UpperAt(addr, P) ==
  [i \in 1..Len(addr) |-> IF i \in P THEN UpperChar(addr[i]) ELSE addr[i]]
CasePositions == {3, 4, 5, 20, 39, 41}
SymbolAddresses ==
  {UpperAt(a, P) :
     a \in {AddrWETH, AddrUSDC, AddrDAI, AddrUSDT, AddrETH, AddrUnknown, AddrOther},
     P \in SUBSET CasePositions}

\* a caller formats an amount
FormatAmountCall ==
  /\ \E a \in FormatAmounts, d \in FormatDecimals :
       fmtCall' = [amount |-> a, decimals |-> d, result |-> formatAmount(a, d)]
  /\ symCall' = NoCall /\ tsCall' = NoCall
  /\ UNCHANGED <<tipVars, feedVars, swapVars, userVars, postVars, tipsVars>>

\* a caller (PostCard, the normalizer of part_007) looks a token address up
GetTokenSymbolCall ==
  /\ \E a \in SymbolAddresses :
       symCall' = [address |-> a, symbol |-> getTokenSymbol(a),
                   info |-> getTokenInfo(a)]
  /\ fmtCall' = NoCall /\ tsCall' = NoCall
  /\ UNCHANGED <<tipVars, feedVars, swapVars, userVars, postVars, tipsVars>>

\* mutant of formatTimestamp: the hour count takes its plural from 1 on
formatTimestampPluralFromOne(timestamp, now) ==
  LET eventTime == timestamp * 1000
      diffMs == now - eventTime
      diffHours == diffMs \div (1000 * 60 * 60)
      diffDays == diffMs \div (1000 * 60 * 60 * 24)
  IN IF diffHours < 1 THEN <<"J", "u", "s", "t", " ", "n", "o", "w">>
     ELSE IF diffHours < 24
     THEN ToChars(ToDigits(diffHours)) \o <<" ", "h", "o", "u", "r">>
            \o (IF diffHours >= 1 THEN <<"s">> ELSE <<>>) \o <<" ", "a", "g", "o">>
     ELSE ToChars(ToDigits(diffDays)) \o <<" ", "d", "a", "y">>
            \o (IF diffDays > 1 THEN <<"s">> ELSE <<>>) \o <<" ", "a", "g", "o">>

\* formatTimestamp(timestamp) at Date.now() = now: timestamp in seconds, now in
\* milliseconds, Math.floor as \div
formatTimestamp(timestamp, now) ==
  LET eventTime == timestamp * 1000
      diffMs == now - eventTime
      diffHours == diffMs \div (1000 * 60 * 60)
      diffDays == diffMs \div (1000 * 60 * 60 * 24)
  IN IF diffHours < 1 THEN <<"J", "u", "s", "t", " ", "n", "o", "w">>
     ELSE IF diffHours < 24
     THEN ToChars(ToDigits(diffHours)) \o <<" ", "h", "o", "u", "r">>
            \o (IF diffHours > 1 THEN <<"s">> ELSE <<>>) \o <<" ", "a", "g", "o">>
     ELSE ToChars(ToDigits(diffDays)) \o <<" ", "d", "a", "y">>
            \o (IF diffDays > 1 THEN <<"s">> ELSE <<>>) \o <<" ", "a", "g", "o">>

\* the timestamp field of a Trade: BigInt(log.block_timestamp || 0), then
\* formatTimestamp for a positive value and 'Unknown' otherwise
TradeTimestamp(block_timestamp, now) ==
  LET timestampBigInt == IF block_timestamp.present THEN block_timestamp.value ELSE 0
  IN IF timestampBigInt > 0 THEN formatTimestamp(timestampBigInt, now)
     ELSE <<"U", "n", "k", "n", "o", "w", "n">>

\* block_timestamp of a log: missing, zero, or seconds since the epoch (the
\* epoch of the model is close enough for milliseconds to fit the integers)
BlockTimestamps ==
  {[present |-> FALSE]} \cup {[present |-> TRUE, value |-> v] : v \in {0, 1000, 90000}}

\* Date.now() - eventTime in milliseconds: a block ahead of the clock, and the
\* ends of the first hours and days
TimeDiffs ==
  {-5000, 0, 3599999, 3600000, 7199999, 7200000, 82800000, 86399999, 86400000,
   172799999, 172800000, 259200000, 864000000}

\* the normalizer computes the timestamp field of a Trade
FormatTimestampCall ==
  /\ \E b \in BlockTimestamps, d \in TimeDiffs :
       LET now == (IF b.present THEN b.value * 1000 ELSE 0) + d
       IN tsCall' = [block_timestamp |-> b, now |-> now,
                     result |-> TradeTimestamp(b, now)]
  /\ fmtCall' = NoCall /\ symCall' = NoCall
  /\ UNCHANGED <<tipVars, feedVars, swapVars, userVars, postVars, tipsVars>>

UtilsNext ==
  \/ FormatAmountCall
  \/ GetTokenSymbolCall
  \/ FormatTimestampCall

\* ------------------------------------------------------------------------
\* Formatting and lookup utilities: properties
\* ------------------------------------------------------------------------
\* the magnitude of the amount of the last formatAmount call
CallMagnitude == IF fmtCall.amount < 0 THEN -fmtCall.amount ELSE fmtCall.amount

\* digit i, from the left, of (m modulo 10^d) written with d digits; m is
\* below 10^10, so every digit above the tenth from the right is 0
FractionDigit(m, d, i) == IF d - i > 9 THEN 0 ELSE (m \div 10^(d - i)) % 10

\* m divided by 10^d
WholeValue(m, d) == IF d > 9 THEN 0 ELSE m \div 10^d

\* the length of the run of zeros the fraction starts with
LeadingZeros(m, d) ==
  Cardinality({i \in 1..d : \A j \in 1..i : FractionDigit(m, d, j) = 0})

\* the fraction as the claim prints it: cut 4 digits after the leading zeros,
\* then up to its last non-zero digit
ExpectedFraction(m, d) ==
  LET cut == Min(d, LeadingZeros(m, d) + 4)
      nonZero == {i \in 1..cut : FractionDigit(m, d, i) # 0}
      last == IF nonZero = {} THEN 0
              ELSE CHOOSE i \in nonZero : \A j \in nonZero : j <= i
  IN [i \in 1..last |-> DigitChars[FractionDigit(m, d, i) + 1]]

\* the parts of a printed amount
DotAt(r) == {i \in DOMAIN r : r[i] = "."}
WholeOf(r) == IF DotAt(r) = {} THEN r ELSE SubSeq(r, 1, (CHOOSE i \in DotAt(r) : TRUE) - 1)
FractionOf(r) ==
  IF DotAt(r) = {} THEN <<>> ELSE SubSeq(r, (CHOOSE i \in DotAt(r) : TRUE) + 1, Len(r))

RECURSIVE CharsToNat(_)
\* the number a sequence of digit characters writes
CharsToNat(cs) ==
  IF cs = <<>> THEN 0
  ELSE 10 * CharsToNat(SubSeq(cs, 1, Len(cs) - 1))
         + (CHOOSE v \in 0..9 : DigitChars[v + 1] = cs[Len(cs)])

\* C23: the timestamp field is "Unknown" for a missing or zero block
\* timestamp; otherwise, with d = now - block timestamp, "Just now" when
\* floor(d / 1h) < 1, "N hour(s) ago" with N = floor(d / 1h) when N < 24,
\* else "N day(s) ago" with N = floor(d / 24h), the unit plural exactly when
\* N is not 1.
C23_RelativeTimestamp ==
  tsCall # NoCall =>
    LET b == tsCall.block_timestamp
        d == tsCall.now - b.value * 1000
        hours == d \div 3600000
        days == d \div 86400000
        Unit(n, name) ==
          ToChars(ToDigits(n)) \o <<" ">> \o name
            \o (IF n # 1 THEN <<"s">> ELSE <<>>) \o <<" ", "a", "g", "o">>
    IN tsCall.result =
         IF ~b.present \/ b.value = 0 THEN <<"U", "n", "k", "n", "o", "w", "n">>
         ELSE IF hours < 1 THEN <<"J", "u", "s", "t", " ", "n", "o", "w">>
         ELSE IF hours < 24 THEN Unit(hours, <<"h", "o", "u", "r">>)
         ELSE Unit(days, <<"d", "a", "y">>)

\* a block exactly one hour old was printed as "1 hour ago"
C23_Witness ==
  /\ tsCall # NoCall
  /\ tsCall.block_timestamp.present
  /\ tsCall.now - tsCall.block_timestamp.value * 1000 = 3600000
  /\ tsCall.result = <<"1", " ", "h", "o", "u", "r", " ", "a", "g", "o">>

\* C18: the fractional part formatAmount prints is the fraction padded to
\* `decimals` digits, cut 4 digits after its leading zero run, without its
\* trailing zeros; formatAmount(1500000000000000000, 18) is "1.5" and
\* formatAmount(1000000000000000001, 18) keeps the 17 zeros before its 1.
C18_FractionRule ==
  fmtCall # NoCall =>
    /\ Cardinality(DotAt(fmtCall.result)) <= 1
    /\ FractionOf(fmtCall.result) = ExpectedFraction(CallMagnitude, fmtCall.decimals)
    /\ FormatMagnitude(<<1, 5>> \o [i \in 1..17 |-> 0], 18) = <<"1", ".", "5">>
    /\ FormatMagnitude(<<1>> \o [i \in 1..17 |-> 0] \o <<1>>, 18)
         = <<"1", ".">> \o [i \in 1..17 |-> "0"] \o <<"1">>

\* formatAmount(12345, 18) printed the 13 leading zeros and four of the five
\* digits that follow them
C18_Witness ==
  /\ fmtCall # NoCall
  /\ fmtCall.amount = 12345 /\ fmtCall.decimals = 18
  /\ fmtCall.result = <<"0", ".">> \o [i \in 1..13 |-> "0"] \o <<"1", "2", "3", "4">>

\* C19: when no fractional digit is left the result is the whole part alone,
\* without a decimal point; a zero amount gives "0" whatever decimals is; a
\* negative amount is printed like its absolute value.
C19_NoFraction ==
  fmtCall # NoCall =>
    /\ ExpectedFraction(CallMagnitude, fmtCall.decimals) = <<>> =>
         /\ DotAt(fmtCall.result) = {}
         /\ fmtCall.result # <<>>
         /\ Len(fmtCall.result) > 1 => fmtCall.result[1] # "0"
         /\ CharsToNat(fmtCall.result) = WholeValue(CallMagnitude, fmtCall.decimals)
    /\ CallMagnitude = 0 => fmtCall.result = <<"0">>
    /\ fmtCall.result = formatAmount(CallMagnitude, fmtCall.decimals)

\* formatAmount(-1000000, 6) printed "1"
C19_Witness ==
  /\ fmtCall # NoCall
  /\ fmtCall.amount = -1000000 /\ fmtCall.decimals = 6
  /\ fmtCall.result = <<"1">>

\* C20 (as claimed): the symbol lookup returns for an address what it returns
\* for the lower-case spelling of that address, so that any two spellings of
\* one address get the same string, in the registry or not.
C20_CaseInsensitive ==
  symCall # NoCall =>
    /\ symCall.symbol = getTokenSymbol(toLowerCase(symCall.address))
    /\ symCall.info.symbol = getTokenInfo(toLowerCase(symCall.address)).symbol

\* C20 (amended): for an address whose lower-case spelling is in the registry
\* the lookup returns what it returns for the lower-case spelling; for any
\* other address it returns the first 6 and the last 4 characters of the
\* address as given around "...", which is the result for the lower-case
\* spelling up to letter case.
C20_CaseInsensitiveInRegistry ==
  symCall # NoCall =>
    LET lower == toLowerCase(symCall.address)
        short == SubSeq(symCall.address, 1, 6) \o <<".", ".", ".">>
                   \o SubSeq(symCall.address, Len(symCall.address) - 3,
                             Len(symCall.address))
    IN IF lower \in {AddrWETH, AddrUSDC, AddrDAI, AddrUSDT, AddrETH}
       THEN /\ symCall.symbol = getTokenSymbol(lower)
            /\ symCall.info = getTokenInfo(lower)
            /\ symCall.info.symbol = symCall.symbol
       ELSE /\ symCall.symbol = short
            /\ symCall.info.symbol = short
            /\ toLowerCase(symCall.symbol) = getTokenSymbol(lower)

\* the WETH address spelled with upper-case hex digits resolved to WETH
C20_Witness ==
  /\ symCall # NoCall
  /\ symCall.address # toLowerCase(symCall.address)
  /\ toLowerCase(symCall.address) = AddrWETH
  /\ symCall.symbol = <<"W", "E", "T", "H">>
  /\ symCall.info.symbol = <<"W", "E", "T", "H">>

\* ------------------------------------------------------------------------
\* Trade normalizer: properties
\* ------------------------------------------------------------------------
\* the log a Trade was built from: the log of the response with its id
SourceIndex(t) ==
  CHOOSE i \in DOMAIN swapsBackend.swaps : TradeId(swapsBackend.swaps[i]) = t.id
SourceLog(t) == swapsBackend.swaps[SourceIndex(t)]

\* C7: for every emitted Trade, a negative decoded amount0 gives type buy
\* with tokenOut = token0 and tokenIn = token1, anything else gives type sell
\* with tokenOut = token1 and tokenIn = token0; amountIn and amountOut are the
\* formatted amounts of the sides of tokenIn and tokenOut.
C7_TradeDirection ==
  swapsOutcome = "resolved" =>
    \A k \in DOMAIN trades :
      LET t == trades[k]
          log == SourceLog(t)
          ev == parseSwapEventData(log.data)
          fmt0 == formatAmount(ev.amount0, SymbolDecimals(log.token0_symbol))
          fmt1 == formatAmount(ev.amount1, SymbolDecimals(log.token1_symbol))
      IN /\ ev # Null
         /\ IF ev.amount0 < 0
            THEN /\ t.type = "buy"
                 /\ t.tokenOut = log.token0_symbol /\ t.amountOut = fmt0
                 /\ t.tokenIn = log.token1_symbol /\ t.amountIn = fmt1
            ELSE /\ t.type = "sell"
                 /\ t.tokenOut = log.token1_symbol /\ t.amountOut = fmt1
                 /\ t.tokenIn = log.token0_symbol /\ t.amountIn = fmt0

\* a log with amount0 = -1500000 on a USDC/DAI pair became a buy of 1.5 USDC
C7_Witness ==
  /\ swapsOutcome = "resolved"
  /\ \E k \in DOMAIN trades :
       /\ parseSwapEventData(SourceLog(trades[k]).data).amount0 = -1500000
       /\ trades[k].type = "buy"
       /\ trades[k].tokenOut = "USDC"
       /\ trades[k].amountOut = <<"1", ".", "5">>
       /\ trades[k].tokenIn = "DAI"

\* the log joins a block and a transaction, has both symbols and decodes
WellFormed(log) ==
  /\ \E b \in swapsBackend.blocks : b.number = log.block_number
  /\ \E t \in swapsBackend.transactions :
       /\ t.block_number = log.block_number
       /\ t.transaction_index = log.transaction_index
  /\ log.token0_symbol # "" /\ log.token1_symbol # ""
  /\ Len(log.data) >= 5

TradeFields == {"id", "tokenIn", "tokenOut", "amountIn", "amountOut", "txHash", "type"}

\* C8: the output holds exactly one Trade for each well-formed log and no
\* entry, partial or placeholder, for any other log; a log that fails to
\* decode does not stop the others from being normalized.
C8_OnlyWellFormedLogs ==
  swapsOutcome = "resolved" =>
    LET swaps == swapsBackend.swaps
        good == {i \in DOMAIN swaps : WellFormed(swaps[i])}
    IN /\ Len(trades) = Cardinality(good)
       /\ \A i \in good :
            Cardinality({k \in DOMAIN trades :
               trades[k].id = TradeId(swaps[i])}) = 1
       /\ \A k \in DOMAIN trades :
            /\ DOMAIN trades[k] = TradeFields
            /\ \E i \in good : trades[k].id = TradeId(swaps[i])
            /\ trades[k].tokenIn # "" /\ trades[k].tokenOut # ""
            /\ trades[k].amountIn # <<>> /\ trades[k].amountOut # <<>>

\* a response of two logs whose first one fails to decode gave one Trade
C8_Witness ==
  /\ swapsOutcome = "resolved"
  /\ Len(swapsBackend.swaps) = 2
  /\ parseSwapEventData(swapsBackend.swaps[1].data) = Null
  /\ WellFormed(swapsBackend.swaps[2])
  /\ Len(trades) = 1
  /\ trades[1].id = TradeId(swapsBackend.swaps[2])

\* C9 (as claimed): in every emitted Trade the side assigned to tokenOut has a
\* negative decoded amount and the side assigned to tokenIn a non-negative one.
C9_TradeSides ==
  swapsOutcome = "resolved" =>
    \A k \in DOMAIN trades :
      LET ev == parseSwapEventData(SourceLog(trades[k]).data)
      IN IF trades[k].type = "buy"
         THEN ev.amount0 < 0 /\ ev.amount1 >= 0
         ELSE ev.amount1 < 0 /\ ev.amount0 >= 0

\* the position in the response of the k-th well-formed log
SurvivorAt(k) ==
  CHOOSE i \in DOMAIN swapsBackend.swaps :
    /\ WellFormed(swapsBackend.swaps[i])
    /\ Cardinality({j \in 1..i : WellFormed(swapsBackend.swaps[j])}) = k

NumSurvivors ==
  Cardinality({i \in DOMAIN swapsBackend.swaps : WellFormed(swapsBackend.swaps[i])})

\* the log behind the Trade at position k of the output, by position alone
LogOfTrade(k) == swapsBackend.swaps[SurvivorAt(NumSurvivors + 1 - k)]

\* C16: the output is the surviving logs in the reverse of the order of the
\* response: the first Trade comes from the last surviving log, the second
\* from the one before it, and so on.
C16_ReverseOrder ==
  swapsOutcome = "resolved" =>
    /\ Len(trades) = NumSurvivors
    /\ \A k \in DOMAIN trades :
         /\ trades[k].id = TradeId(LogOfTrade(k))
         /\ \E tx \in swapsBackend.transactions :
              /\ tx.block_number = LogOfTrade(k).block_number
              /\ tx.transaction_index = LogOfTrade(k).transaction_index
              /\ trades[k].txHash = tx.hash

\* a response of three logs whose middle one was dropped: the Trade of the
\* third log comes first, the Trade of the first log second
C16_Witness ==
  /\ swapsOutcome = "resolved"
  /\ Len(swapsBackend.swaps) = 3
  /\ ~WellFormed(swapsBackend.swaps[2])
  /\ Len(trades) = 2
  /\ trades[1].id = TradeId(swapsBackend.swaps[3])
  /\ trades[2].id = TradeId(swapsBackend.swaps[1])
  /\ trades[1].id # trades[2].id

\* C17: two Trades of one fetch have the same id exactly when their logs have
\* the same block number and the same log index, and no two Trades of one
\* fetch have the same id.
C17_TradeIdUnique ==
  swapsOutcome = "resolved" =>
    \A k1, k2 \in DOMAIN trades :
      /\ (trades[k1].id = trades[k2].id) <=>
           /\ LogOfTrade(k1).block_number = LogOfTrade(k2).block_number
           /\ LogOfTrade(k1).log_index = LogOfTrade(k2).log_index
      /\ k1 # k2 => trades[k1].id # trades[k2].id

\* one fetch gave the Trades of log 11 of block 1 and of log 1 of block 11,
\* whose ids hold the same digits
C17_Witness ==
  /\ swapsOutcome = "resolved"
  /\ \E k1, k2 \in DOMAIN trades :
       /\ LogOfTrade(k1).block_number = 1 /\ LogOfTrade(k1).log_index = 11
       /\ LogOfTrade(k2).block_number = 11 /\ LogOfTrade(k2).log_index = 1
       /\ trades[k1].id = <<"1", "-", "1", "1">>
       /\ trades[k2].id = <<"1", "1", "-", "1">>

\* a symbol of a log as the registry spells it
SymbolChars(symbol) ==
  CASE symbol = "WETH" -> <<"W", "E", "T", "H">>
    [] symbol = "USDC" -> <<"U", "S", "D", "C">>
    [] symbol = "DAI" -> <<"D", "A", "I">>
    [] symbol = "USDT" -> <<"U", "S", "D", "T">>
    [] symbol = "ETH" -> <<"E", "T", "H">>
    [] OTHER -> <<>>

\* the decimals the token registry records for a symbol, 18 for a symbol it
\* does not hold
RegistryDecimals(symbol) ==
  IF \E a \in DOMAIN TOKEN_INFO : TOKEN_INFO[a].symbol = SymbolChars(symbol)
  THEN TOKEN_INFO[CHOOSE a \in DOMAIN TOKEN_INFO :
                    TOKEN_INFO[a].symbol = SymbolChars(symbol)].decimals
  ELSE 18

\* C22 (as claimed): each leg of an emitted Trade is the amount of its side
\* formatted with the decimals the token registry records for the token of
\* that side (18 for a token the registry does not hold).
C22_RegistryDecimals ==
  swapsOutcome = "resolved" =>
    \A k \in DOMAIN trades :
      LET t == trades[k]
          log == SourceLog(t)
          ev == parseSwapEventData(log.data)
          fmt0 == formatAmount(ev.amount0, RegistryDecimals(log.token0_symbol))
          fmt1 == formatAmount(ev.amount1, RegistryDecimals(log.token1_symbol))
      IN IF ev.amount0 < 0
         THEN t.amountOut = fmt0 /\ t.amountIn = fmt1
         ELSE t.amountOut = fmt1 /\ t.amountIn = fmt0

\* C15 (as claimed): a log whose pool identifier is not a key of the pool
\* registry (compared in lower case) resolves to null and no Trade is emitted
\* for it.
C15_UnknownPoolsSkipped ==
  swapsOutcome = "resolved" =>
    \A k \in DOMAIN trades :
      /\ toLowerCase(SourceLog(trades[k]).topic1) \in DOMAIN KNOWN_POOLS
      /\ parsePoolId(SourceLog(trades[k]).topic1) # Null

\* ------------------------------------------------------------------------
\* Feed pager: properties
\* ------------------------------------------------------------------------
\* C4: when a reset load resolves, items is exactly the returned page and
\* offset is the length of that page, whatever they were before.
C4_ResetLoadReplaces ==
  (lastLoad.op = "resolve" /\ lastLoad.req.reset) =>
    /\ posts = lastLoad.page
    /\ offset = Len(lastLoad.page)

\* a reset load has resolved on a feed that held more posts than the page
C4_Witness ==
  /\ lastLoad.op = "resolve"
  /\ lastLoad.req.reset
  /\ lastLoad.page # <<>>
  /\ lastLoad.prevLen > Len(lastLoad.page)

\* C13: when an appending load (reset = false) resolves, items is the previous
\* items followed by the returned page in order, offset is the offset the
\* request was issued at plus the length of the page, and total is the total
\* of the response.
C13_AppendLoad ==
  [][(lastLoad'.op = "resolve" /\ ~lastLoad'.req.reset) =>
       /\ posts' = posts \o lastLoad'.page
       /\ offset' = lastLoad'.req.offset + Len(lastLoad'.page)
       /\ total' = lastLoad'.total]_vars

\* an appending load has added a page to a feed that held posts, after the
\* offset of the render had moved away from the offset of the request
C13_Witness ==
  /\ lastLoad.op = "resolve"
  /\ ~lastLoad.req.reset
  /\ lastLoad.page # <<>>
  /\ lastLoad.prevLen > 0
  /\ Len(posts) = lastLoad.prevLen + Len(lastLoad.page)
  /\ offset # Len(posts)

\* C5 (as claimed): when the request of a load fails, error is a message and
\* items, offset and total are what they were before that load was triggered.
\* Stated for the load triggered last and alone in flight, so that no other
\* load can have touched the state in between.
C5_FailedLoadPreservesState ==
  (lastLoad.op = "reject" /\ lastLoad.latest /\ lastLoad.before.solo) =>
    /\ feedError # NoError
    /\ posts = lastLoad.before.posts
    /\ offset = lastLoad.before.offset
    /\ total = lastLoad.before.total

\* C6: the response of a load that was overtaken by a later-issued load is
\* applied like any other response (there is no request-generation guard).
C6_StaleResponseApplied ==
  (lastLoad.op = "resolve" /\ lastLoad.req.stale) =>
    /\ total = lastLoad.total
    /\ offset = lastLoad.req.offset + Len(lastLoad.page)
    /\ Len(posts) >= Len(lastLoad.page)
    /\ SubSeq(posts, Len(posts) - Len(lastLoad.page) + 1, Len(posts)) = lastLoad.page
    /\ lastLoad.req.reset => posts = lastLoad.page

\* all loads have settled and the feed shows the page of the previous sort
\* key, delivered by the overtaken request, not the page of the current one
C6_Witness ==
  /\ requests = <<>>
  /\ lastLoad.op = "resolve"
  /\ lastLoad.req.stale
  /\ lastLoad.req.reset
  /\ lastLoad.req.sort # sort
  /\ posts = Page(lastLoad.req.sort, PageSize, 0, numPosts)
  /\ posts # Page(sort, PageSize, 0, numPosts)

\* ------------------------------------------------------------------------
\* Tips received: useUserTips
\* ------------------------------------------------------------------------
\* the seq without its i-th element
RemoveAt(s, i) == SubSeq(s, 1, i - 1) \o SubSeq(s, i + 1, Len(s))

NoUsername == "null"
Usernames == {"alice", "bob"}
ErrFetchTips == "Failed to fetch tips"

TipsUnmounted ==
  /\ tipsUsername = NoUsername /\ tipsData = Null
  /\ tipsLoading = FALSE /\ tipsError = NoError
  /\ tipsRequests = <<>> /\ tipsMounted = FALSE /\ tipsIntervals = {}

\* the hook after mount with no user yet: the effect ran setData(null) and
\* returned before loading and before setInterval
TipsInit ==
  /\ tipsUsername = NoUsername /\ tipsData = Null
  /\ tipsLoading = FALSE /\ tipsError = NoError
  /\ tipsRequests = <<>> /\ tipsMounted = TRUE /\ tipsIntervals = {}

\* the cleanup the effect returns once it has set an interval:
\* clearInterval(interval)
TipsCleanup(old) == tipsIntervals \ {old}

\* loadUserTips up to its await
LoadUserTips(u) ==
  /\ tipsLoading' = TRUE
  /\ tipsError' = NoError
  /\ tipsRequests' = Append(tipsRequests, u)

\* the username argument changes (the user of the provider changed): the
\* previous cleanup runs, then the effect on [username]
TipsUsernameChange ==
  /\ tipsMounted
  /\ \E u \in (Usernames \cup {NoUsername}) \ {tipsUsername} :
       /\ tipsUsername' = u
       /\ IF u = NoUsername
          THEN /\ tipsData' = Null
               /\ tipsIntervals' = TipsCleanup(tipsUsername)
               /\ UNCHANGED <<tipsLoading, tipsError, tipsRequests>>
          ELSE /\ Len(tipsRequests) < MaxInflight
               /\ LoadUserTips(u)
               /\ tipsIntervals' = TipsCleanup(tipsUsername) \cup {u}
               /\ UNCHANGED tipsData
  /\ UNCHANGED tipsMounted
  /\ UNCHANGED <<tipVars, feedVars, swapVars, utilVars, userVars, postVars>>

\* an interval of the hook fires and calls the loadUserTips it was set with
UserTipsTick ==
  /\ Len(tipsRequests) < MaxInflight
  /\ \E u \in tipsIntervals : LoadUserTips(u)
  /\ UNCHANGED <<tipsUsername, tipsData, tipsMounted, tipsIntervals>>
  /\ UNCHANGED <<tipVars, feedVars, swapVars, utilVars, userVars, postVars>>

\* fetchUserTips resolves: setData(tipsData), setIsLoading(false); React drops
\* the updates of a component that is no longer mounted
FetchUserTipsResolve ==
  /\ \E i \in DOMAIN tipsRequests :
       /\ tipsRequests' = RemoveAt(tipsRequests, i)
       /\ IF tipsMounted
          THEN tipsData' = [username |-> tipsRequests[i]] /\ tipsLoading' = FALSE
          ELSE UNCHANGED <<tipsData, tipsLoading>>
  /\ UNCHANGED <<tipsUsername, tipsError, tipsMounted, tipsIntervals>>
  /\ UNCHANGED <<tipVars, feedVars, swapVars, utilVars, userVars, postVars>>

\* fetchUserTips throws: setError(message), setIsLoading(false)
FetchUserTipsReject ==
  /\ \E i \in DOMAIN tipsRequests :
       /\ tipsRequests' = RemoveAt(tipsRequests, i)
       /\ IF tipsMounted
          THEN tipsError' = ErrFetchTips /\ tipsLoading' = FALSE
          ELSE UNCHANGED <<tipsError, tipsLoading>>
  /\ UNCHANGED <<tipsUsername, tipsData, tipsMounted, tipsIntervals>>
  /\ UNCHANGED <<tipVars, feedVars, swapVars, utilVars, userVars, postVars>>

\* the component using the hook unmounts: the cleanup of the effect runs
TipsUnmount ==
  /\ tipsMounted
  /\ tipsMounted' = FALSE
  /\ tipsIntervals' = TipsCleanup(tipsUsername)
  /\ UNCHANGED <<tipsUsername, tipsData, tipsLoading, tipsError, tipsRequests>>
  /\ UNCHANGED <<tipVars, feedVars, swapVars, utilVars, userVars, postVars>>

\* ------------------------------------------------------------------------
\* User identity: the UserProvider mounted around the application
\* ------------------------------------------------------------------------
\* the username the backend stores for a wallet address
UsernameOf(a) == IF a = "0xA1" THEN "alice" ELSE "bob"

ErrEnsureUser == "Failed to ensure user"

\* api.ts ensureUser: the body POST /api/users/ensure answers with
ensureUser(a) == [username |-> UsernameOf(a), wallet_address |-> a]

\* the provider after its first effect: a connected wallet has its ensureUser
\* request in flight, a disconnected one has none
UserInit ==
  /\ user = Null
  /\ userError = NoError
  /\ userLoading = (address # NoAddr)
  /\ ensureCalls = IF address # NoAddr THEN <<address>> ELSE <<>>

UserUnmounted ==
  /\ user = Null /\ userError = NoError /\ userLoading = FALSE
  /\ ensureCalls = <<>>

\* the wallet connects, switches account or disconnects: the provider's effect
\* on [address, isConnected] runs; disconnected it clears user and error,
\* connected it calls refetch, which issues ensureUser(address)
WalletChange ==
  /\ \E a \in (Addresses \cup {NoAddr}) \ {address} :
       /\ a # NoAddr => Len(ensureCalls) < MaxEnsureCalls
       /\ address' = a
       /\ IF a = NoAddr
          THEN /\ user' = Null
               /\ userError' = NoError
               /\ UNCHANGED <<userLoading, ensureCalls>>
          ELSE /\ userLoading' = TRUE
               /\ userError' = NoError
               /\ ensureCalls' = Append(ensureCalls, a)
               /\ UNCHANGED user
  /\ UNCHANGED <<isTipModalOpen, traderWallet, writeStatus, hash, receiptStatus,
                 tipError, tipRecorded, tipCalls, closedEarly, onSuccessCalls>>
  /\ UNCHANGED <<feedVars, swapVars, utilVars, postVars, tipsVars>>

\* refetch after its await: setUser(userData), whatever the wallet is by now
EnsureUserApply(a) == ensureUser(a)

\* an ensureUser request resolves (in any order): setUser, then the finally
\* block's setIsLoading(false)
EnsureUserResolve ==
  /\ \E i \in DOMAIN ensureCalls :
       /\ user' = EnsureUserApply(ensureCalls[i])
       /\ userLoading' = FALSE
       /\ ensureCalls' = RemoveAt(ensureCalls, i)
  /\ UNCHANGED userError
  /\ UNCHANGED <<tipVars, feedVars, swapVars, utilVars, postVars, tipsVars>>

\* an ensureUser request fails: setError(message), setIsLoading(false); user
\* keeps its value
EnsureUserReject ==
  /\ \E i \in DOMAIN ensureCalls :
       /\ userError' = ErrEnsureUser
       /\ userLoading' = FALSE
       /\ ensureCalls' = RemoveAt(ensureCalls, i)
  /\ UNCHANGED user
  /\ UNCHANGED <<tipVars, feedVars, swapVars, utilVars, postVars, tipsVars>>

\* ------------------------------------------------------------------------
\* Create-post modal: Navigation's isModalOpen and one CreatePostModal
\* ------------------------------------------------------------------------
\* String.prototype.includes
Includes(s, sub) ==
  \E i \in 1..(Len(s) - Len(sub) + 1) : SubSeq(s, i, i + Len(sub) - 1) = sub

RECURSIVE TrimStart(_)
TrimStart(s) ==
  IF s # <<>> /\ Head(s) = " " THEN TrimStart(Tail(s)) ELSE s

RECURSIVE TrimEnd(_)
TrimEnd(s) ==
  IF s # <<>> /\ s[Len(s)] = " " THEN TrimEnd(SubSeq(s, 1, Len(s) - 1)) ELSE s

\* String.prototype.trim
trim(s) == TrimEnd(TrimStart(s))

\* setSubmitError(null)
NoSubmitError == <<>>

MsgNotFound ==
  <<"T", "r", "a", "d", "e", " ", "n", "o", "t", " ", "f", "o", "u", "n",
    "d", ".", " ", "P", "l", "e", "a", "s", "e", " ", "w", "a", "i", "t",
    " ", "a", " ", "m", "o", "m", "e", "n", "t", " ", "a", "n", "d", " ",
    "t", "r", "y", " ", "a", "g", "a", "i", "n", ".">>
MsgNotOwned ==
  <<"T", "h", "i", "s", " ", "t", "r", "a", "d", "e", " ", "d", "o", "e",
    "s", " ", "n", "o", "t", " ", "b", "e", "l", "o", "n", "g", " ", "t",
    "o", " ", "y", "o", "u", "r", " ", "w", "a", "l", "l", "e", "t", ".">>
MsgAlreadyPosted ==
  <<"T", "h", "i", "s", " ", "t", "r", "a", "d", "e", " ", "h", "a", "s",
    " ", "a", "l", "r", "e", "a", "d", "y", " ", "b", "e", "e", "n", " ",
    "p", "o", "s", "t", "e", "d", ".">>
MsgFailedCreate ==
  <<"F", "a", "i", "l", "e", "d", " ", "t", "o", " ", "c", "r", "e", "a",
    "t", "e", " ", "p", "o", "s", "t">>
MsgNoHash ==
  <<"T", "r", "a", "d", "e", " ", "h", "a", "s", "h", " ", "n", "o", "t",
    " ", "f", "o", "u", "n", "d">>

\* the trades the modal lists: one with its transaction hash, one whose
\* transaction had none (txHash is tx.hash || '')
PostTrades == {[id |-> "1-1", txHash |-> "0xt1"], [id |-> "11-1", txHash |-> ""]}

\* what the user types into the textarea
Reasonings == {<<>>, <<" ", " ">>, <<" ", "g", "m", " ">>}

\* statuses and detail texts of a failed POST /api/posts
ErrorStatuses == {404, 403, 409, 500}
\* no detail, 'Trade not found', 'Error 404', 'Error 409'
ErrorDetails ==
  {<<>>,
   <<"T", "r", "a", "d", "e", " ", "n", "o", "t", " ", "f", "o", "u", "n", "d">>,
   <<"E", "r", "r", "o", "r", " ", "4", "0", "4">>,
   <<"E", "r", "r", "o", "r", " ", "4", "0", "9">>}

NoPostStep == [op |-> "none"]

PostInit ==
  /\ isModalOpen = FALSE
  /\ selectedTrade = Null
  /\ reasoning = <<>>
  /\ isSubmitting = FALSE
  /\ submitError = NoSubmitError
  /\ username = "trader"
  /\ postCalls = <<>>
  /\ sentPosts = {}
  /\ lastPostStep = NoPostStep

\* the effect on [isOpen]: a closed modal resets its form
ResetForm ==
  /\ selectedTrade' = Null
  /\ reasoning' = <<>>
  /\ submitError' = NoSubmitError
  /\ isSubmitting' = FALSE

\* Navigation: the Post Trade button, setIsModalOpen(true)
OpenModal ==
  /\ ~isModalOpen
  /\ isModalOpen' = TRUE
  /\ lastPostStep' = NoPostStep
  /\ UNCHANGED <<selectedTrade, reasoning, isSubmitting, submitError, username,
                 postCalls, sentPosts>>
  /\ UNCHANGED <<tipVars, feedVars, swapVars, utilVars, userVars, tipsVars>>

\* the close button, the backdrop or Escape (Cancel is disabled while
\* submitting, these are not): onClose, then the reset effect
CloseModal ==
  /\ isModalOpen
  /\ isModalOpen' = FALSE
  /\ ResetForm
  /\ lastPostStep' = NoPostStep
  /\ UNCHANGED <<username, postCalls, sentPosts>>
  /\ UNCHANGED <<tipVars, feedVars, swapVars, utilVars, userVars, tipsVars>>

\* a click on a trade of the list, which is shown to a connected wallet only:
\* selects it, or clears the selection when it was selected
SelectTrade ==
  /\ isModalOpen /\ isConnected
  /\ \E t \in PostTrades :
       selectedTrade' = IF selectedTrade # Null /\ selectedTrade.id = t.id
                        THEN Null ELSE t
  /\ lastPostStep' = NoPostStep
  /\ UNCHANGED <<isModalOpen, reasoning, isSubmitting, submitError, username,
                 postCalls, sentPosts>>
  /\ UNCHANGED <<tipVars, feedVars, swapVars, utilVars, userVars, tipsVars>>

\* typing into the textarea, rendered once a trade is selected
SetReasoning ==
  /\ isModalOpen /\ isConnected /\ selectedTrade # Null
  /\ \E r \in Reasonings \ {reasoning} : reasoning' = r
  /\ lastPostStep' = NoPostStep
  /\ UNCHANGED <<isModalOpen, selectedTrade, isSubmitting, submitError, username,
                 postCalls, sentPosts>>
  /\ UNCHANGED <<tipVars, feedVars, swapVars, utilVars, userVars, tipsVars>>

\* the body handleSubmit passes to createPost
PostBody(name, trade, text) ==
  [username |-> IF name # "" THEN name ELSE "trader",
   tx_hash |-> trade.txHash,
   content |-> trim(text)]

\* handleSubmit's catch block: the message shown for a thrown error message
SubmitErrorFor(errorMessage) ==
  IF Includes(errorMessage, <<"4", "0", "4">>) THEN MsgNotFound
  ELSE IF Includes(errorMessage, <<"4", "0", "3">>) THEN MsgNotOwned
  ELSE IF Includes(errorMessage, <<"4", "0", "9">>) THEN MsgAlreadyPosted
  ELSE errorMessage

\* api.ts createPost on a response that is not ok: the message of the Error
\* it throws, error.detail || 'Failed to create post'
CreatePostErrorMessage(status, detail) ==
  IF detail # <<>> THEN detail ELSE MsgFailedCreate

\* the submit button (enabled with a trade selected, not submitting, wallet
\* connected): handleSubmit up to its await
HandleSubmit ==
  /\ isModalOpen /\ selectedTrade # Null /\ ~isSubmitting /\ isConnected
  /\ Len(postCalls) < MaxPostCalls
  /\ IF trim(reasoning) = <<>>
     THEN /\ lastPostStep' = [op |-> "ignored"]
          /\ UNCHANGED <<isSubmitting, submitError, postCalls, sentPosts>>
     ELSE IF selectedTrade.txHash # ""
     THEN /\ isSubmitting' = TRUE
          /\ submitError' = NoSubmitError
          /\ postCalls' = Append(postCalls, PostBody(username, selectedTrade, reasoning))
          /\ sentPosts' = sentPosts \cup
                            {[body |-> PostBody(username, selectedTrade, reasoning),
                              wallet |-> address,
                              trade |-> selectedTrade,
                              reasoning |-> reasoning]}
          /\ lastPostStep' = [op |-> "sent"]
     ELSE /\ isSubmitting' = FALSE
          /\ submitError' = SubmitErrorFor(MsgNoHash)
          /\ lastPostStep' = [op |-> "nohash"]
          /\ UNCHANGED <<postCalls, sentPosts>>
  /\ UNCHANGED <<isModalOpen, selectedTrade, reasoning, username>>
  /\ UNCHANGED <<tipVars, feedVars, swapVars, utilVars, userVars, tipsVars>>

\* createPost resolves: onPostCreated?.() (Navigation passes none), onClose(),
\* setIsSubmitting(false), then the reset effect of the closed modal
CreatePostResolve ==
  /\ \E i \in DOMAIN postCalls :
       /\ postCalls' = RemoveAt(postCalls, i)
       /\ lastPostStep' = [op |-> "created", wasOpen |-> isModalOpen]
  /\ isModalOpen' = FALSE
  /\ IF isModalOpen
     THEN ResetForm
     ELSE isSubmitting' = FALSE /\ UNCHANGED <<selectedTrade, reasoning, submitError>>
  /\ UNCHANGED <<username, sentPosts>>
  /\ UNCHANGED <<tipVars, feedVars, swapVars, utilVars, userVars, tipsVars>>

\* createPost throws for a response that is not ok: the catch block's
\* setSubmitError, then setIsSubmitting(false); onClose is not called
CreatePostReject ==
  /\ \E i \in DOMAIN postCalls, status \in ErrorStatuses, detail \in ErrorDetails :
       /\ postCalls' = RemoveAt(postCalls, i)
       /\ submitError' = SubmitErrorFor(CreatePostErrorMessage(status, detail))
       /\ lastPostStep' = [op |-> "failed", status |-> status, detail |-> detail,
                           wasOpen |-> isModalOpen]
  /\ isSubmitting' = FALSE
  /\ UNCHANGED <<isModalOpen, selectedTrade, reasoning, username, sentPosts>>
  /\ UNCHANGED <<tipVars, feedVars, swapVars, utilVars, userVars, tipsVars>>

PostNext ==
  \/ WalletChange
  \/ EnsureUserResolve
  \/ EnsureUserReject
  \/ OpenModal
  \/ CloseModal
  \/ SelectTrade
  \/ SetReasoning
  \/ HandleSubmit
  \/ CreatePostResolve
  \/ CreatePostReject

\* C24: a mounted feed and a mounted user-tips hook each have at most one
\* refresh interval that is not cleared; after teardown none is left, and no
\* further load is issued.
C24_TimersCleared ==
  /\ [](Cardinality(feedIntervals) <= 1 /\ Cardinality(tipsIntervals) <= 1)
  /\ []((~feedMounted => feedIntervals = {}) /\ (~tipsMounted => tipsIntervals = {}))
  /\ [][/\ ~feedMounted => Len(requests') <= Len(requests)
        /\ ~tipsMounted => Len(tipsRequests') <= Len(tipsRequests)]_vars

\* both teardowns happened with a load still pending: the feed after its
\* interval had followed a sort change, the hook after a username change
C24_Witness ==
  \/ ~feedMounted /\ requests # <<>> /\ sort = "pnl"
  \/ ~tipsMounted /\ tipsRequests # <<>> /\ tipsUsername = "bob"

\* C25 (as claimed): isLoading is true exactly while at least one feed load
\* is in flight.
C25_LoadingTracksInflight == feedLoading <=> (requests # <<>>)

\* C26 (as claimed): whenever no feed load is in flight, offset equals the
\* number of items.
C26_OffsetIsLength == (requests = <<>>) => (offset = Len(posts))

\* C27 (as claimed): with an unchanging backend list and loadMore triggered
\* through the Load More button only, items never holds a post id twice.
C27_NoDuplicatePosts ==
  \A i \in DOMAIN posts, j \in DOMAIN posts : posts[i] = posts[j] => i = j

\* C28 (as claimed): with a fixed backend list and loadMore issued one at a
\* time while hasMore, the pager eventually has hasMore false and items equal
\* to the backend's posts in the backend's order, unless a request fails.
C28_PagingTerminates ==
  <>(\/ lastLoad.op = "reject"
     \/ ~hasMore /\ posts = BackendList(sort, numPosts))

\* ------------------------------------------------------------------------
\* User identity and create-post modal: properties
\* ------------------------------------------------------------------------
\* the message the status table of the interface gives a domain error
StatusMessage(status) ==
  CASE status = 404 -> MsgNotFound
    [] status = 403 -> MsgNotOwned
    [] status = 409 -> MsgAlreadyPosted

\* C21 (as claimed): when create-post was answered with 404, 403 or 409 the
\* modal shows the message of that status, whatever the detail text of the
\* error body is; the modal is as open as it was and isSubmitting is false.
C21_DomainErrorMessage ==
  (lastPostStep.op = "failed" /\ lastPostStep.status \in {404, 403, 409}) =>
    /\ submitError = StatusMessage(lastPostStep.status)
    /\ isModalOpen = lastPostStep.wasOpen
    /\ ~isSubmitting

\* C29 (as claimed): once every ensureUser request has settled and none has
\* failed since the wallet last changed, user is null for a disconnected
\* wallet and the record of the connected address otherwise.
C29_UserMatchesWallet ==
  (ensureCalls = <<>> /\ userError = NoError) =>
    IF address = NoAddr THEN user = Null ELSE user = ensureUser(address)

\* C30 (as claimed): every create-post request sent carries the username
\* ensure-user returns for the wallet connected at that moment, the
\* transaction hash of the selected trade and the trimmed reasoning, and is
\* sent with a trade selected and a reasoning that is not blank.
C30_RequestCarriesUser ==
  \A s \in sentPosts :
      /\ s.trade # Null
      /\ trim(s.reasoning) # <<>>
      /\ s.wallet # NoAddr
      /\ s.body.username = UsernameOf(s.wallet)
      /\ s.body.tx_hash = s.trade.txHash
      /\ s.body.content = trim(s.reasoning)

\* ------------------------------------------------------------------------
\* Specifications
\* ------------------------------------------------------------------------
InitTip == TipInit /\ FeedUnmounted /\ SwapsUnmounted /\ UtilsUnused
  /\ UserUnmounted /\ PostInit /\ TipsUnmounted
SpecTip == InitTip /\ [][TipNext]_vars
\* the tip flow under the scheduling of the browser: a handler, a pending
\* promise or an effect that can run does run
SpecTipFair == InitTip /\ [][TipNext]_vars /\ WF_vars(TipNext)
TipUnused ==
  /\ TipInit
  /\ address = NoAddr
  /\ traderWallet = TRUE

InitFeed == FeedInit /\ TipUnused /\ SwapsUnmounted /\ UtilsUnused
  /\ UserUnmounted /\ PostInit /\ TipsUnmounted
SpecFeed == InitFeed /\ [][FeedNext]_vars

\* the feed in front of a backend whose list does not change and which
\* answers every request: loadMore, periodic refresh and sort changes, with
\* the responses in any order
FeedStaticNext ==
  \/ SetSort
  \/ Refetch
  \/ LoadMore
  \/ FetchPostsResolve
SpecFeedStatic == InitFeed /\ [][FeedStaticNext]_vars

\* loadMore issued one at a time: the button is used again only once the
\* previous loadMore has settled
LoadMoreOneAtATime ==
  /\ \A i \in DOMAIN requests : requests[i].reset
  /\ LoadMore

\* paging through a backend whose list does not change: the button is used
\* while it is offered and every pending request settles
FeedPagingNext ==
  \/ LoadMoreOneAtATime
  \/ FetchPostsResolve
  \/ FetchPostsReject
SpecFeedPaging ==
  /\ InitFeed
  /\ [][FeedPagingNext]_vars
  /\ WF_vars(LoadMoreOneAtATime)
  /\ WF_vars(FetchPostsResolve \/ FetchPostsReject)

TipConnected ==
  /\ TipInit
  /\ address = "0xA1"
  /\ traderWallet = TRUE

InitSwaps == SwapsInit /\ TipConnected /\ FeedUnmounted /\ UtilsUnused
  /\ UserUnmounted /\ PostInit /\ TipsUnmounted
SpecSwaps == InitSwaps /\ [][SwapsNext]_vars

InitUtils == UtilsUnused /\ TipUnused /\ FeedUnmounted /\ SwapsUnmounted
  /\ UserUnmounted /\ PostInit /\ TipsUnmounted
SpecUtils == InitUtils /\ [][UtilsNext]_vars

TipIdle ==
  /\ TipInit
  /\ traderWallet = TRUE

InitPost == TipIdle /\ UserInit /\ PostInit /\ FeedUnmounted /\ SwapsUnmounted
  /\ UtilsUnused /\ TipsUnmounted
SpecPost == InitPost /\ [][PostNext]_vars

\* the two components that set intervals share no state: each is followed
\* from its own mount to its teardown, in front of a backend whose list does
\* not change
InitTimers ==
  /\ TipUnused /\ SwapsUnmounted /\ UtilsUnused /\ UserUnmounted /\ PostInit
  /\ \/ FeedInit /\ TipsUnmounted
     \/ FeedUnmounted /\ TipsInit
TimersNext ==
  \/ SetSort
  \/ SetViewer
  \/ Refetch
  \/ LoadMore
  \/ FetchPostsResolve
  \/ FetchPostsReject
  \/ FeedUnmount
  \/ TipsUsernameChange
  \/ UserTipsTick
  \/ FetchUserTipsResolve
  \/ FetchUserTipsReject
  \/ TipsUnmount
SpecTimers == InitTimers /\ [][TimersNext]_vars
====
